---- MODULE Spec2Model ----
(***************************************************************************)
(* PPO + EWC training loop (safepo/single_agent/ppo_ewc_lambda.py, main)   *)
(* together with the task cycle of SafetyHalfCheetahVelocityEnv            *)
(* (safety_half_cheetah_velocity_v2.py).                                   *)
(*                                                                         *)
(* main() is one synchronous function; the program counter pc names the    *)
(* place in it.  Tensors are abstracted to small integers, the networks'   *)
(* outputs (environment flags, gradients, optimizer results, measured KL)  *)
(* are nondeterministic choices.  Python indices are kept 0-based.         *)
(***************************************************************************)
EXTENDS Integers, Sequences, FiniteSets, TLC

\* ------------------------------------------------------------------ bounds
MaxStepsPerEpoch == 3   \* largest args.steps_per_epoch explored
MaxStepsPerTask  == 3   \* largest args.task_length explored
MaxEpochs        == 3   \* epochs of the longest run (total_steps // steps_per_epoch)
MaxTaskLength    == 2   \* largest environment TASK_LENGTH explored
MaxLearningIters == 2   \* largest config["learning_iters"] explored
MaxEvalLen       == 2   \* an evaluation episode is truncated after this many steps
MaxBatchLen      == 2   \* samples in the largest minibatch whose actor loss is computed

\* ------------------------------------------------------- program constants
WindowLen == 20         \* deque(maxlen=20)

\* ------------------------------------------------- value domains (inputs)
ParamNames == {"mean"}          \* names of policy.actor.named_parameters()
ParamVals  == {0, 1}            \* values one parameter entry can take
Grads      == {-1, 0, 1}        \* values one gradient entry can take
None       == [none |-> TRUE]   \* Python None
Rewards    == {1}               \* a step's reward: one unit
Costs      == {1}               \* a step's cost: one unit

\* =================================================== rational arithmetic
\* Fisher entries are means (sum / len), kept exact as <<numerator, denominator>>.
RECURSIVE GCD(_, _)
GCD(a, b) == IF b = 0 THEN a ELSE GCD(b, a % b)

Rat(n, d) == LET g == GCD(n, d) IN IF n = 0 THEN <<0, 1>> ELSE <<n \div g, d \div g>>
RatAdd(x, y) == Rat(x[1] * y[2] + y[1] * x[2], x[2] * y[2])
RatScale(x, k) == Rat(x[1] * k, x[2])
RatZero == <<0, 1>>
RatOne == <<1, 1>>
RatMul(x, y) == Rat(x[1] * y[1], x[2] * y[2])
RatNeg(x) == <<-x[1], x[2]>>
RatLeq(x, y) == x[1] * y[2] <= y[1] * x[2]
RatMin(x, y) == IF RatLeq(x, y) THEN x ELSE y
RatMax(x, y) == IF RatLeq(x, y) THEN y ELSE x

RECURSIVE SumOver(_, _)
\* sum of the rationals f[x], x in S
SumOver(f, S) ==
    IF S = {} THEN RatZero
    ELSE LET x == CHOOSE y \in S : TRUE IN RatAdd(f[x], SumOver(f, S \ {x}))

\* ======================================== SafetyHalfCheetahVelocityEnv
TASK_CYCLE == <<"nominal", "eighteen", "nominal", "sixteen", "twenty">>

MULTIPLIERS == [nominal |-> Rat(1, 1), sixteen |-> Rat(16, 14),
                eighteen |-> Rat(18, 14), twenty |-> Rat(20, 14)]
\* the nominal body masses; a body-mass vector is kept as its rational
\* multiple of this vector
NOMINAL_MASSES == RatOne

\* __init__: the masses are the model file's, which NOMINAL_MASSES records
\* sim_steps counts the simulation steps since the last reset() and stands
\* for the simulation's state; ret is what the last step() returned (at first,
\* reset()'s observation); calls counts the step() calls (history).
EnvInit == [current_task |-> 0, steps_since_change |-> 0,
            current_task_name |-> TASK_CYCLE[1], body_mass |-> NOMINAL_MASSES,
            resets |-> 0, sim_steps |-> 0, calls |-> 0,
            ret |-> [observation |-> 0, terminated |-> FALSE, truncated |-> FALSE]]

\* reset(): the simulation starts over; the task clock is not touched
EnvReset(e) == [e EXCEPT !.sim_steps = 0]

\* variant of change_task that rescales the masses the model currently has
change_task_compounding(e) ==
    EnvReset(
    [e EXCEPT !.current_task_name = TASK_CYCLE[e.current_task + 1],
              !.body_mass = RatMul(e.body_mass,
                                   MULTIPLIERS[TASK_CYCLE[e.current_task + 1]]),
              !.resets = 1])

\* change_task: set the name, rescale the masses, reset the simulation
change_task(e) ==
    EnvReset(
    [e EXCEPT !.current_task_name = TASK_CYCLE[e.current_task + 1],
              !.body_mass = RatMul(NOMINAL_MASSES,
                                   MULTIPLIERS[TASK_CYCLE[e.current_task + 1]]),
              !.resets = 1])

\* variant of check_task that switches as soon as the counter reaches L
check_task_at_threshold(e, L) ==
    IF e.steps_since_change >= L
    THEN change_task([e EXCEPT !.steps_since_change = 0,
                               !.current_task = (e.current_task + 1) % Len(TASK_CYCLE)])
    ELSE [e EXCEPT !.resets = 0]

\* check_task
check_task(e, L) ==
    IF e.steps_since_change > L
    THEN change_task([e EXCEPT !.steps_since_change = 0,
                               !.current_task = (e.current_task + 1) % Len(TASK_CYCLE)])
    ELSE [e EXCEPT !.resets = 0]

\* variant of EnvStep that counts the step before it checks the threshold
EnvStepCountFirst(e, L) ==
    LET sim == e.sim_steps + 1
        observation == sim
        c == check_task([e EXCEPT !.sim_steps = sim,
                                  !.steps_since_change = e.steps_since_change + 1], L)
    IN  [c EXCEPT !.calls = e.calls + 1,
                  !.ret = [observation |-> observation, terminated |-> FALSE,
                           truncated |-> FALSE]]

\* variant of EnvStep that reads the observation after check_task and reports
\* the variant switch as a truncation
EnvStepObsAfterCheck(e, L) ==
    LET sim == e.sim_steps + 1
        c == check_task([e EXCEPT !.sim_steps = sim], L)
    IN  [c EXCEPT !.steps_since_change = c.steps_since_change + 1,
                  !.calls = e.calls + 1,
                  !.ret = [observation |-> c.sim_steps, terminated |-> FALSE,
                           truncated |-> c.resets = 1]]

\* step: do_simulation; observation = self._get_obs(); terminated = False; ...
\* self.check_task(); self.steps_since_change += 1;
\* return observation, reward, cost, terminated, False, info
EnvStep(e, L) ==
    LET sim == e.sim_steps + 1
        observation == sim
        c == check_task([e EXCEPT !.sim_steps = sim], L)
    IN  [c EXCEPT !.steps_since_change = c.steps_since_change + 1,
                  !.calls = e.calls + 1,
                  !.ret = [observation |-> observation, terminated |-> FALSE,
                           truncated |-> FALSE]]


\* ============================================================ main(): state
VARIABLES
    args,                \* the parsed command line (constant during a run)
    config,              \* default_cfg (learning_iters, batch_size)
    TASK_LENGTH,         \* the environment module's TASK_LENGTH
    max_episode_steps,   \* the environment's time limit; 0: an environment
                         \* whose episode ends are not determined by a limit
    pc,                  \* place in main()
    tasks, num_tasks,    \* ast.literal_eval(args.tasks), len(tasks)
    fisher_matrices,     \* 0-based: fisher_matrices[k + 1] is Python's [k]
    old_params_list,
    current_task_index,
    steps_since_change,  \* main()'s counter, not the environment's
    epoch, steps,
    actor_params,        \* policy.actor's parameters
    reward_critic_params, cost_critic_params,
    envs,                \* one SafetyHalfCheetahVelocityEnv per slot
    buf_ptr, buf_path_start,   \* VectorizedOnPolicyBuffer: ptr, path_start_idx
    ep_ret, ep_cost, ep_len,   \* per slot: the running episode's return, cost, length
    rew_deque, cost_deque, len_deque,   \* deque(maxlen=20), oldest entry first
    elapsed,             \* per slot: steps of the running episode (the time limit's count)
    update_counts,       \* passes completed in this update
    iter, mb,            \* pass index (the for loop's _), minibatch index in the pass
    ewc_loss,            \* ewc_loss of the last minibatch step
    fisher_info, fisher_i,     \* compute_fisher_info: accumulator, sample index
    eval_len,
    scheduler_steps,     \* actor_scheduler.step() calls so far
    batch, loss_pi,      \* a minibatch's <<ratio, advantage>> samples, its actor loss
    \* ---- history variables (what was called, not program state)
    step_log,            \* the last rollout step, per slot: the flags, whether
                         \* finish_path was called, and with which values
    finish_calls,        \* finish_path calls per slot in this epoch's rollout
    early_ends,          \* per slot: steps of this epoch before its last one on
                         \* which the slot's episode ended
    get_calls,           \* buffer.get() calls in this epoch
    kl_hist,             \* per pass of this update: did KL exceed target_kl
    kl_checks,           \* minibatch index at which each KL check was made
    eval_queries,        \* <<env, deterministic>> of the evaluation's policy queries
    eval_runs,           \* evaluation rollouts finished this epoch, per env
    switches,            \* advances of current_task_index so far
    snap_fresh,          \* no optimizer step since the last anchor snapshot
    ewc_fresh,           \* snap_fresh at the time ewc_loss was computed
    trained              \* a rollout step or optimizer step has run

cfgvars  == <<args, config, TASK_LENGTH, max_episode_steps>>
ewcvars  == <<tasks, num_tasks, fisher_matrices, old_params_list,
              current_task_index, steps_since_change, switches>>
epvars   == <<ep_ret, ep_cost, ep_len, rew_deque, cost_deque, len_deque, elapsed>>
rollvars == <<steps, envs, buf_ptr, buf_path_start, step_log, finish_calls,
              early_ends, epvars>>
polvars  == <<actor_params, reward_critic_params, cost_critic_params>>
lossvars == <<batch, loss_pi>>
updvars  == <<update_counts, iter, mb, ewc_loss, kl_hist, kl_checks, ewc_fresh>>
fishvars == <<fisher_info, fisher_i>>
evalvars == <<eval_len, eval_queries, eval_runs>>
vars == <<cfgvars, pc, ewcvars, rollvars, updvars, fishvars, evalvars, lossvars,
          scheduler_steps, epoch, polvars, get_calls, snap_fresh, trained>>

\* ----------------------------------------------------- derived quantities
Slots == 0 .. (args.num_envs - 1)
steps_per_epoch == args.steps_per_epoch                       \* line 97
local_steps_per_epoch == steps_per_epoch \div args.num_envs   \* line 99
epochs == args.total_steps \div steps_per_epoch               \* line 100
steps_per_task == args.task_length                            \* line 101
\* len(data['obs']): the buffer holds local_steps_per_epoch rows per slot
DataLen == local_steps_per_epoch * args.num_envs
\* number of minibatches the DataLoader yields per pass
NumBatches == (DataLen + config.batch_size - 1) \div config.batch_size

\* ------------------------------------------------------------- the inputs
ListArg(l) == [kind |-> "list", val |-> l]
TaskArgs == { [kind |-> "malformed", val |-> <<>>],   \* literal_eval raises
              [kind |-> "scalar", val |-> <<>>],      \* a literal without len()
              ListArg(<<>>),
              ListArg(<<0>>), ListArg(<<0, 1>>), ListArg(<<1, 0>>),
              ListArg(<<0, 2>>), ListArg(<<-1, 0>>) }

Input(S, n, T, t, ev, li, bs, L, M, E) ==
    [args |-> [steps_per_epoch |-> S, total_steps |-> S * E,
               num_envs |-> n, task_length |-> T, tasks |-> t, use_eval |-> ev],
     config |-> [learning_iters |-> li, batch_size |-> bs],
     TASK_LENGTH |-> L,
     max_episode_steps |-> M]

\* The runs explored.  One group of inputs is swept at a time, the others
\* staying at a base value:
\*   the two clocks' periods; the task list; the slots and the environment's
\*   task length; the update's configuration and the evaluation switch.
\* The slots' sweep runs an environment whose episodes end at any step and
\* switches the task once, after the last epoch; the others run one that only
\* truncates, every second step.
Inputs ==
         { Input(S, 1, T, ListArg(<<0, 1>>), FALSE, 1, 64, 1, 2, MaxEpochs) :
               S \in 1 .. MaxStepsPerEpoch, T \in 1 .. MaxStepsPerTask }
    \cup { Input(2, 1, 2, t, FALSE, 1, 64, 1, 2, MaxEpochs) : t \in TaskArgs }
    \cup { Input(2, n, 2 * MaxEpochs, ListArg(<<0>>), FALSE, 1, 64, L, 0, MaxEpochs) :
               n \in 1 .. 2, L \in 1 .. MaxTaskLength }
    \cup { Input(2, 1, 2, ListArg(<<0, 1>>), ev, li, bs, 1, 2, MaxEpochs) :
               ev \in BOOLEAN, li \in 1 .. MaxLearningIters, bs \in {1, 64} }

\* Runs long enough to overflow the recency deques: every second step ends an
\* episode, two epochs of WindowLen + 2 steps, the task switching after the
\* second.
WindowInputs ==
    { Input(WindowLen + 2, n, 2 * (WindowLen + 2), ListArg(<<0>>), TRUE, 1, 64, 1, 2, 2) :
          n \in 1 .. 2 }

\* the minibatches whose actor loss is computed: <<ratio, advantage>> samples
Ratios == {Rat(1, 2), Rat(4, 5), Rat(1, 1), Rat(6, 5), Rat(3, 2)}
Advantages == {-1, 0, 1}
Batches == UNION { [1 .. l -> Ratios \X Advantages] : l \in 1 .. MaxBatchLen }

\* the state at the start of main() for an input of I
MainInit(I) ==
    /\ \E inp \in I : /\ args = inp.args
                      /\ config = inp.config
                      /\ TASK_LENGTH = inp.TASK_LENGTH
                      /\ max_episode_steps = inp.max_episode_steps
    /\ tasks = <<>> /\ num_tasks = 0
    /\ fisher_matrices = <<>> /\ old_params_list = <<>>
    /\ current_task_index = 0 /\ steps_since_change = 0
    /\ epoch = 0 /\ steps = 0
    /\ actor_params = [n \in ParamNames |-> 0]
    /\ reward_critic_params = [n \in ParamNames |-> 0]
    /\ cost_critic_params = [n \in ParamNames |-> 0]
    /\ envs = [i \in Slots |-> EnvInit]
    /\ ep_ret = [i \in Slots |-> 0] /\ ep_cost = [i \in Slots |-> 0]
    /\ ep_len = [i \in Slots |-> 0]
    /\ rew_deque = <<>> /\ cost_deque = <<>> /\ len_deque = <<>>
    /\ elapsed = [i \in Slots |-> 0]
    /\ loss_pi = None
    /\ scheduler_steps = 0
    /\ buf_ptr = [i \in Slots |-> 0] /\ buf_path_start = [i \in Slots |-> 0]
    /\ update_counts = 0 /\ iter = 0 /\ mb = 0
    /\ ewc_loss = RatZero
    /\ fisher_info = None /\ fisher_i = 0
    /\ eval_len = 0
    /\ step_log = [i \in Slots |-> None]
    /\ finish_calls = [i \in Slots |-> 0]
    /\ early_ends = [i \in Slots |-> 0]
    /\ get_calls = 0
    /\ kl_hist = <<>> /\ kl_checks = <<>>
    /\ eval_queries = {} /\ eval_runs = [e \in {"nominal", "leg"} |-> 0]
    /\ switches = 0
    /\ snap_fresh = FALSE /\ ewc_fresh = FALSE
    /\ trained = FALSE

\* Spec follows main() and leaves the minibatch's tensors out
Init == MainInit(Inputs) /\ pc = "start" /\ batch = <<>>
InitWindow == MainInit(WindowInputs) /\ pc = "start" /\ batch = <<>>
\* SpecSurrogate applies the actor loss of lines 352-356 to one minibatch
InitSurrogate ==
    /\ MainInit({Input(1, 1, 1, ListArg(<<0>>), FALSE, 1, 64, 1, 0, MaxEpochs)})
    /\ pc = "surrogate"
    /\ batch \in Batches


\* =========================================================== main(): steps
\* ast.literal_eval(args.tasks); len(tasks)                     (lines 78-79)
ParseTasks(a) == [ok |-> a.kind = "list", val |-> a.val]

\* lines 76-159: parse the task list, build the EWC slots, the policy, the
\* buffer; a malformed task list raises here.
Setup ==
    /\ pc = "start"
    /\ LET p == ParseTasks(args.tasks) IN
       IF ~p.ok
       THEN /\ pc' = "failed"
            /\ UNCHANGED <<tasks, num_tasks, fisher_matrices, old_params_list,
                           polvars>>
       ELSE /\ tasks' = p.val
            /\ num_tasks' = Len(p.val)
            /\ fisher_matrices' = [k \in 1 .. Len(p.val) |-> None]
            /\ old_params_list' = [k \in 1 .. Len(p.val) |-> None]
            /\ actor_params' \in [ParamNames -> ParamVals]
            /\ UNCHANGED <<reward_critic_params, cost_critic_params>>
            /\ pc' = IF epochs > 0 THEN "rollout" ELSE "done"
    /\ UNCHANGED <<cfgvars, lossvars, scheduler_steps,
                   current_task_index, steps_since_change, switches,
                   rollvars, updvars, fishvars, evalvars, epoch, get_calls,
                   snap_fresh, trained>>

\* ------------------------------------------- VectorizedOnPolicyBuffer
\* store: one more row per slot
BufferStore(ptr) == [i \in DOMAIN ptr |-> ptr[i] + 1]
\* finish_path(idx): the slot's next path starts at its write pointer
BufferFinishPath(ptr, i) == ptr[i]
\* get: hands out the whole epoch and starts over
BufferReset(ptr) == [i \in DOMAIN ptr |-> 0]

\* ----------------------------------------------------------------- rollout
Zero == [kind |-> "zeros", obs |-> "-"]          \* torch.zeros(1)
Critic(o) == [kind |-> "critic", obs |-> o]     \* value_r, value_c of policy.step(o)

\* lines 177-188: a None entry of info["final_observation"] becomes a zero vector
FinalObservation(entry) == IF entry = "None" THEN "zeros" ELSE entry

\* variant of LastValue in which the epoch-end bootstrap overrides the timeout's
LastValueEpochEndLast(done, time_out, epoch_end, final_obs) ==
    LET v0 == Zero
        v1 == IF time_out THEN Critic(FinalObservation(final_obs)) ELSE v0
        v2 == IF epoch_end THEN Critic("obs") ELSE v1
    IN  IF ~done THEN v2 ELSE v0

\* lines 203-217: the bootstrap values handed to finish_path
LastValue(done, time_out, epoch_end, final_obs) ==
    LET v0 == Zero
        v1 == IF epoch_end THEN Critic("obs") ELSE v0
        v2 == IF time_out THEN Critic(FinalObservation(final_obs)) ELSE v1
    IN  IF ~done THEN v2 ELSE v0

\* variant of FinishCalled that closes a path at the epoch's end only
FinishCalledAtEpochEnd(done, time_out, epoch_end) == epoch_end

\* line 202: is finish_path called for this slot on this step
FinishCalled(done, time_out, epoch_end) == epoch_end \/ done \/ time_out

\* line 168: the flags env.step returns.  Under a time limit the environment
\* is the velocity task: step() never terminates, the limit truncates.
EnvFlags(terminated, truncated) ==
    max_episode_steps > 0 =>
        \A i \in Slots : /\ ~terminated[i]
                         /\ truncated[i] <=> (elapsed[i] + 1 >= max_episode_steps)

\* deque.append with maxlen: the oldest entry leaves a full deque
DequeAppend(d, v) ==
    LET a == Append(d, v) IN IF Len(a) > WindowLen THEN Tail(a) ELSE a

RECURSIVE AppendEnded(_, _, _, _)
\* `for idx, (done, time_out) in enumerate(...)`: the slots from idx on, in
\* order, append v[idx] when over[idx]
AppendEnded(d, v, over, idx) ==
    IF idx >= args.num_envs THEN d
    ELSE AppendEnded(IF over[idx] THEN DequeAppend(d, v[idx]) ELSE d, v, over, idx + 1)

\* variant of LogEpisode that logs whenever a path is closed
LogEpisodeAtFinish(done, time_out, epoch_end) == epoch_end \/ done \/ time_out

\* line 218: `if done or time_out`
LogEpisode(done, time_out, epoch_end) == done \/ time_out

\* variant of LoopOver that runs the loop body once more
LoopOverLate(s, local) == s >= local

\* line 164: `for steps in range(local_steps_per_epoch)` is over after step s
LoopOver(s, local) == s + 1 >= local

\* lines 165-236: one iteration of the rollout loop over all slots
RolloutStep ==
    /\ pc = "rollout"
    /\ \E terminated, truncated \in [Slots -> BOOLEAN],
          fo \in [Slots -> {"None", "final_obs"}],
          reward \in [Slots -> Rewards], cost \in [Slots -> Costs] :
         \* the vector environment supplies a final observation only for a
         \* slot whose episode ended on this step
         /\ \A i \in Slots : fo[i] # "None" => (terminated[i] \/ truncated[i])
         /\ EnvFlags(terminated, truncated)
         /\ LET epoch_end == steps >= local_steps_per_epoch - 1
                called(i) == FinishCalled(terminated[i], truncated[i], epoch_end)
                ret == [i \in Slots |-> ep_ret[i] + reward[i]]
                cst == [i \in Slots |-> ep_cost[i] + cost[i]]
                len == [i \in Slots |-> ep_len[i] + 1]
                over == [i \in Slots |->
                            LogEpisode(terminated[i], truncated[i], epoch_end)]
            IN  \* env.step: each slot's step(); the vector environment resets
                \* a slot whose episode ended
                /\ envs' = [i \in Slots |->
                     IF terminated[i] \/ truncated[i]
                     THEN EnvReset(EnvStep(envs[i], TASK_LENGTH))
                     ELSE EnvStep(envs[i], TASK_LENGTH)]
                /\ elapsed' = [i \in Slots |->
                     IF terminated[i] \/ truncated[i] THEN 0 ELSE elapsed[i] + 1]
                /\ rew_deque' = AppendEnded(rew_deque, ret, over, 0)
                /\ cost_deque' = AppendEnded(cost_deque, cst, over, 0)
                /\ len_deque' = AppendEnded(len_deque, len, over, 0)
                /\ ep_ret' = [i \in Slots |-> IF over[i] THEN 0 ELSE ret[i]]
                /\ ep_cost' = [i \in Slots |-> IF over[i] THEN 0 ELSE cst[i]]
                /\ ep_len' = [i \in Slots |-> IF over[i] THEN 0 ELSE len[i]]
                /\ buf_ptr' = BufferStore(buf_ptr)
                /\ buf_path_start' = [i \in Slots |->
                     IF called(i)
                     THEN BufferFinishPath(BufferStore(buf_ptr), i)
                     ELSE buf_path_start[i]]
                /\ step_log' = [i \in Slots |->
                     [done |-> terminated[i], time_out |-> truncated[i],
                      epoch_end |-> epoch_end, final_obs |-> fo[i],
                      called |-> called(i),
                      last_value |-> IF called(i)
                                     THEN LastValue(terminated[i], truncated[i],
                                                    epoch_end, fo[i])
                                     ELSE Zero]]
                /\ finish_calls' = [i \in Slots |->
                     IF called(i) THEN finish_calls[i] + 1 ELSE finish_calls[i]]
                /\ early_ends' = [i \in Slots |->
                     IF ~epoch_end /\ (terminated[i] \/ truncated[i])
                     THEN early_ends[i] + 1 ELSE early_ends[i]]
                /\ steps' = steps + 1
                /\ pc' = IF LoopOver(steps, local_steps_per_epoch)
                         THEN "rollout_done" ELSE "rollout"
    /\ trained' = TRUE
    /\ UNCHANGED <<cfgvars, lossvars, scheduler_steps,
                   ewcvars, updvars, fishvars, evalvars, epoch,
                   polvars, get_calls, snap_fresh>>

\* lines 237-242: the rollout is over; evaluation runs only with args.use_eval
EndRollout ==
    /\ pc = "rollout_done"
    /\ steps' = 0
    /\ step_log' = [i \in Slots |-> None]
    /\ finish_calls' = [i \in Slots |-> 0]
    /\ early_ends' = [i \in Slots |-> 0]
    /\ pc' = IF args.use_eval THEN "eval_nominal" ELSE "update"
    /\ UNCHANGED <<cfgvars, lossvars, scheduler_steps,
                   ewcvars, envs, buf_ptr, buf_path_start,
                   epvars, updvars, fishvars, evalvars, epoch, polvars, get_calls,
                   snap_fresh, trained>>

\* -------------------------------------------------------------- evaluation
NominalDeterministic == TRUE     \* line 252: policy.step(eval_obs, deterministic=True)
LegDeterministic == FALSE        \* line 285: policy.step(eval_obs, deterministic=False)

\* one iteration of `while not eval_done` on env e; the episode ends by
\* termination or, at the latest, by the time limit's truncation
EvalStep(e, det, next) ==
    /\ \E eval_done \in BOOLEAN :
         /\ (eval_len + 1 >= MaxEvalLen) => eval_done
         /\ eval_queries' = eval_queries \cup {<<e, det>>}
         /\ IF eval_done
            THEN /\ eval_runs' = [eval_runs EXCEPT ![e] = @ + 1]
                 /\ eval_len' = 0
                 /\ pc' = next
            ELSE /\ eval_len' = eval_len + 1
                 /\ UNCHANGED <<eval_runs, pc>>
    /\ UNCHANGED <<cfgvars, lossvars, scheduler_steps,
                   ewcvars, rollvars, updvars, fishvars, epoch,
                   polvars, get_calls, snap_fresh, trained>>

\* lines 244-264
EvalNominalStep ==
    /\ pc = "eval_nominal"
    /\ EvalStep("nominal", NominalDeterministic, "eval_leg")

\* lines 277-297
EvalLegStep ==
    /\ pc = "eval_leg"
    /\ EvalStep("leg", LegDeterministic, "update")


\* ------------------------------------------------------------------ update
\* variant of ParamPenalty that forgets the anchor: fisher * param^2
ParamPenaltyNoAnchor(fisher, old, params) ==
    SumOver([n \in ParamNames |-> RatScale(fisher[n], params[n] * params[n])],
            ParamNames)

\* lines 359-367: sum over the stored tasks and the actor's parameters of
\* fisher * (param - old_param)^2
ParamPenalty(fisher, old, params) ==
    SumOver([n \in ParamNames |->
                RatScale(fisher[n], (params[n] - old[n]) * (params[n] - old[n]))],
            ParamNames)

EwcLoss(F, O, params) ==
    SumOver([k \in DOMAIN F |->
                IF F[k] # None THEN ParamPenalty(F[k], O[k], params) ELSE RatZero],
            DOMAIN F)

\* lines 314-333: data = buffer.get(); the buffer starts over for the next epoch
BufferGet ==
    /\ pc = "update"
    /\ get_calls' = get_calls + 1
    /\ buf_ptr' = BufferReset(buf_ptr)
    /\ buf_path_start' = BufferReset(buf_path_start)
    /\ update_counts' = 0
    /\ iter' = 0 /\ mb' = 0
    /\ kl_hist' = <<>> /\ kl_checks' = <<>>
    /\ eval_queries' = {} /\ eval_runs' = [e \in {"nominal", "leg"} |-> 0]
    /\ pc' = "minibatch"
    /\ UNCHANGED <<cfgvars, lossvars, scheduler_steps,
                   ewcvars, steps, envs, step_log, finish_calls,
                   early_ends, epvars, ewc_loss, ewc_fresh, fishvars, eval_len,
                   epoch, polvars, snap_fresh, trained>>

\* variant of MiniBatchStep for anchors stored without clone(): the stored
\* tensors are the live ones, so the optimizer's in-place step moves them too
MiniBatchStepAliased ==
    /\ pc = "minibatch"
    /\ ewc_loss' = EwcLoss(fisher_matrices, old_params_list, actor_params)
    /\ ewc_fresh' = snap_fresh
    /\ actor_params' \in [ParamNames -> ParamVals]
    /\ reward_critic_params' \in [ParamNames -> ParamVals]
    /\ cost_critic_params' \in [ParamNames -> ParamVals]
    /\ old_params_list' = [k \in DOMAIN old_params_list |->
           IF old_params_list[k] # None THEN actor_params' ELSE None]
    /\ snap_fresh' = FALSE
    /\ mb' = mb + 1
    /\ pc' = IF mb + 1 >= NumBatches THEN "kl" ELSE "minibatch"
    /\ trained' = TRUE
    /\ UNCHANGED <<cfgvars, lossvars, scheduler_steps, tasks, num_tasks, fisher_matrices,
                   current_task_index, steps_since_change, switches, rollvars,
                   update_counts, iter, kl_hist, kl_checks, fishvars, evalvars,
                   epoch, get_calls>>

\* lines 343-388: one minibatch: losses, EWC penalty, backward, optimizer steps
MiniBatchStep ==
    /\ pc = "minibatch"
    /\ ewc_loss' = EwcLoss(fisher_matrices, old_params_list, actor_params)
    /\ ewc_fresh' = snap_fresh
    /\ actor_params' \in [ParamNames -> ParamVals]      \* actor_optimizer.step()
    /\ reward_critic_params' \in [ParamNames -> ParamVals]   \* reward_critic_optimizer.step()
    /\ cost_critic_params' \in [ParamNames -> ParamVals]     \* cost_critic_optimizer.step()
    /\ snap_fresh' = FALSE
    /\ mb' = mb + 1
    /\ pc' = IF mb + 1 >= NumBatches THEN "kl" ELSE "minibatch"
    /\ trained' = TRUE
    /\ UNCHANGED <<cfgvars, lossvars, scheduler_steps,
                   ewcvars, rollvars, update_counts, iter, kl_hist,
                   kl_checks, fishvars, evalvars, epoch, get_calls>>

\* variant of KLStop that never stops the pass loop
KLStopNever(exceeds) == FALSE

\* line 399: kl > config["target_kl"]
KLStop(exceeds) == exceeds

\* lines 390-400: the KL check at the end of a pass
KLCheck ==
    /\ pc = "kl"
    /\ \E exceeds \in BOOLEAN :      \* did the measured kl exceed target_kl
         /\ kl_hist' = Append(kl_hist, exceeds)
         /\ kl_checks' = Append(kl_checks, mb)
         /\ update_counts' = update_counts + 1
         /\ iter' = iter + 1
         /\ mb' = 0
         /\ pc' = IF KLStop(exceeds) \/ iter + 1 >= config.learning_iters
                  THEN "update_done" ELSE "minibatch"
    /\ UNCHANGED <<cfgvars, lossvars, scheduler_steps,
                   ewcvars, rollvars, ewc_loss, ewc_fresh, fishvars,
                   evalvars, epoch, polvars, get_calls, snap_fresh, trained>>

\* variant of SchedulerStep that skips the scheduler after a KL early stop
SchedulerStepUnlessStopped ==
    /\ pc = "update_done"
    /\ scheduler_steps' = IF kl_hist # <<>> /\ kl_hist[Len(kl_hist)]
                          THEN scheduler_steps ELSE scheduler_steps + 1
    /\ kl_hist' = <<>> /\ kl_checks' = <<>>
    /\ pc' = "clock"
    /\ UNCHANGED <<cfgvars, lossvars, ewcvars, rollvars, update_counts, iter, mb,
                   ewc_loss, ewc_fresh, fishvars, evalvars, epoch, polvars,
                   get_calls, snap_fresh, trained>>

\* lines 401-441: actor_scheduler.step() and the epoch's log line
SchedulerStep ==
    /\ pc = "update_done"
    /\ scheduler_steps' = scheduler_steps + 1
    /\ kl_hist' = <<>> /\ kl_checks' = <<>>
    /\ pc' = "clock"
    /\ UNCHANGED <<cfgvars, lossvars, ewcvars, rollvars, update_counts, iter, mb,
                   ewc_loss, ewc_fresh, fishvars, evalvars, epoch, polvars,
                   get_calls, snap_fresh, trained>>

\* ------------------------------------------------- the Regularizer's clock
\* Python list indexing: -len <= i < len, a negative i counts from the end
IndexOK(i, len) == -len <= i /\ i < len
PyIndex(i, len) == IF i < 0 THEN i + len ELSE i

\* variant of SwitchDue with a strict comparison
SwitchDueStrict(counter, T) == counter > T

\* line 447
SwitchDue(counter, T) == counter >= T

\* lines 444-449: advance the counter; when the task is over, drain the buffer
\* again and start compute_fisher_info on it
ClockTick ==
    /\ pc = "clock"
    /\ steps_since_change' = steps_since_change + steps_per_epoch
    /\ IF SwitchDue(steps_since_change + steps_per_epoch, steps_per_task)
       THEN IF IndexOK(current_task_index, num_tasks)
            THEN /\ get_calls' = get_calls + 1
                 /\ fisher_info' = None
                 /\ fisher_i' = 0
                 /\ pc' = "fisher"
            ELSE \* IndexError at line 448: tasks[current_task_index] of an empty list
                 /\ pc' = "failed"
                 /\ UNCHANGED <<get_calls, fishvars>>
       ELSE /\ pc' = "epoch_end"
            /\ UNCHANGED <<get_calls, fishvars>>
    /\ UNCHANGED <<cfgvars, lossvars, scheduler_steps,
                   tasks, num_tasks, fisher_matrices, old_params_list,
                   current_task_index, switches, rollvars, updvars, evalvars,
                   epoch, polvars, snap_fresh, trained>>

\* lines 464-474: one (obs, act) pair: backward, accumulate grad^2 per parameter
FisherAccumulate(info, grad) ==
    IF info = None
    THEN [n \in ParamNames |-> grad[n] * grad[n]]
    ELSE [n \in ParamNames |-> info[n] + grad[n] * grad[n]]

\* variant of FisherSample that applies the optimizers after each backward
FisherSampleStepping ==
    /\ pc = "fisher"
    /\ fisher_i < DataLen
    /\ \E grad \in [ParamNames -> Grads] :
         fisher_info' = FisherAccumulate(fisher_info, grad)
    /\ fisher_i' = fisher_i + 1
    /\ actor_params' \in [ParamNames -> ParamVals]
    /\ reward_critic_params' \in [ParamNames -> ParamVals]
    /\ cost_critic_params' \in [ParamNames -> ParamVals]
    /\ UNCHANGED <<cfgvars, lossvars, scheduler_steps,
                   pc, ewcvars, rollvars, updvars, evalvars, epoch,
                   get_calls, snap_fresh, trained>>

\* lines 462-474: one sample of compute_fisher_info
FisherSample ==
    /\ pc = "fisher"
    /\ fisher_i < DataLen
    /\ \E grad \in [ParamNames -> Grads] :
         fisher_info' = FisherAccumulate(fisher_info, grad)
    /\ fisher_i' = fisher_i + 1
    /\ UNCHANGED <<cfgvars, lossvars, scheduler_steps,
                   pc, ewcvars, rollvars, updvars, evalvars, epoch,
                   polvars, get_calls, snap_fresh, trained>>

\* lines 476-479: fisher_info[name] /= len(data['obs'])
FisherMean(info, len) == [n \in ParamNames |-> Rat(info[n], len)]

\* variant of save_old_params that keeps no values of its own
save_old_params_blank(model) == [n \in ParamNames |-> 0]

\* lines 481-482: {name: param.clone()}
save_old_params(model) == [n \in ParamNames |-> model[n]]

\* variant of SwitchEffect that leaves the counter running
SwitchEffectNoReset(F, O, idx, counter, k, fisher, old) ==
    [fisher_matrices |-> [F EXCEPT ![k] = fisher],
     old_params_list |-> [O EXCEPT ![k] = old],
     current_task_index |-> (idx + 1) % Len(F),
     steps_since_change |-> counter]

\* variant of SwitchEffect that stores the Fisher record without its anchor
SwitchEffectFisherOnly(F, O, idx, counter, k, fisher, old) ==
    [fisher_matrices |-> [F EXCEPT ![k] = fisher],
     old_params_list |-> O,
     current_task_index |-> (idx + 1) % Len(F),
     steps_since_change |-> 0]

\* variant of SwitchEffect that adds the new Fisher record to the slot's old one
SwitchEffectMerged(F, O, idx, counter, k, fisher, old) ==
    [fisher_matrices |-> [F EXCEPT ![k] =
         IF F[k] = None THEN fisher
         ELSE [n \in ParamNames |-> RatAdd(F[k][n], fisher[n])]],
     old_params_list |-> [O EXCEPT ![k] = old],
     current_task_index |-> (idx + 1) % Len(F),
     steps_since_change |-> 0]

\* lines 454-458: the pair goes to slot k (1-based) of the two lists, the
\* pointer idx moves on cyclically (len(F) is num_tasks), the counter restarts
SwitchEffect(F, O, idx, counter, k, fisher, old) ==
    [fisher_matrices |-> [F EXCEPT ![k] = fisher],
     old_params_list |-> [O EXCEPT ![k] = old],
     current_task_index |-> (idx + 1) % Len(F),
     steps_since_change |-> 0]

\* lines 448-458: store the pair in the active task's slot, advance the pointer
TaskSwitch ==
    /\ pc = "fisher"
    /\ fisher_i >= DataLen
    /\ LET current_task_num == tasks[current_task_index + 1]
           current_fisher == FisherMean(fisher_info, DataLen)
           old_params == save_old_params(actor_params)
       IN  IF IndexOK(current_task_num, num_tasks)
           THEN LET k == PyIndex(current_task_num, num_tasks) + 1
                    r == SwitchEffect(fisher_matrices, old_params_list,
                                      current_task_index, steps_since_change,
                                      k, current_fisher, old_params)
                IN
                /\ fisher_matrices' = r.fisher_matrices
                /\ old_params_list' = r.old_params_list
                /\ current_task_index' = r.current_task_index
                /\ steps_since_change' = r.steps_since_change
                /\ switches' = switches + 1
                /\ snap_fresh' = TRUE
                /\ pc' = "epoch_end"
           ELSE \* IndexError at line 454
                /\ pc' = "failed"
                /\ UNCHANGED <<fisher_matrices, old_params_list, current_task_index,
                               steps_since_change, switches, snap_fresh>>
    /\ fisher_info' = None
    /\ fisher_i' = 0
    /\ UNCHANGED <<cfgvars, lossvars, scheduler_steps,
                   tasks, num_tasks, rollvars, updvars, evalvars, epoch,
                   polvars, get_calls, trained>>

\* variant of NextEpoch that restarts the environments' counters with main()'s
NextEpochSyncEnv ==
    /\ pc = "epoch_end"
    /\ epoch' = epoch + 1
    /\ get_calls' = 0
    /\ pc' = IF epoch + 1 < epochs THEN "rollout" ELSE "done"
    /\ envs' = IF steps_since_change = 0
               THEN [i \in Slots |-> [envs[i] EXCEPT !.steps_since_change = 0]]
               ELSE envs
    /\ UNCHANGED <<cfgvars, lossvars, scheduler_steps,
                   ewcvars, steps, buf_ptr, buf_path_start,
                   step_log, finish_calls, early_ends, epvars, updvars, fishvars,
                   evalvars, polvars, snap_fresh, trained>>

\* line 161: the next iteration of `for epoch in range(epochs)`, or logger.close()
NextEpoch ==
    /\ pc = "epoch_end"
    /\ epoch' = epoch + 1
    /\ get_calls' = 0
    /\ pc' = IF epoch + 1 < epochs THEN "rollout" ELSE "done"
    /\ UNCHANGED <<cfgvars, lossvars, scheduler_steps,
                   ewcvars, rollvars, updvars, fishvars, evalvars, polvars,
                   snap_fresh, trained>>

Next ==
    \/ Setup
    \/ RolloutStep
    \/ EndRollout
    \/ EvalNominalStep
    \/ EvalLegStep
    \/ BufferGet
    \/ MiniBatchStep
    \/ KLCheck
    \/ SchedulerStep
    \/ ClockTick
    \/ FisherSample
    \/ TaskSwitch
    \/ NextEpoch

Spec == Init /\ [][Next]_vars

\* the same loop, run long enough to fill the recency deques
SpecWindow == InitWindow /\ [][Next]_vars

\* ------------------------------------------------------- clipped surrogate
ClipLow == Rat(4, 5)      \* 0.8
ClipHigh == Rat(6, 5)     \* 1.2

\* torch.clamp(x, lo, hi)
clamp(x, lo, hi) == RatMin(RatMax(x, lo), hi)

\* variant of SurrogateTerm that clips the ratio unconditionally
SurrogateTermClipped(ratio, adv) == RatScale(clamp(ratio, ClipLow, ClipHigh), adv)

\* lines 354-356: torch.min(ratio * adv_b, ratio_cliped * adv_b), one sample
SurrogateTerm(ratio, adv) ==
    LET ratio_cliped == clamp(ratio, ClipLow, ClipHigh)
    IN  RatMin(RatScale(ratio, adv), RatScale(ratio_cliped, adv))

\* line 356: loss_pi = -torch.min(...).mean()
ActorLoss(b) ==
    LET total == SumOver([j \in 1 .. Len(b) |-> SurrogateTerm(b[j][1], b[j][2])],
                         1 .. Len(b))
    IN  RatNeg(Rat(total[1], total[2] * Len(b)))

ActorLossStep ==
    /\ pc = "surrogate"
    /\ loss_pi' = ActorLoss(batch)
    /\ pc' = "done"
    /\ UNCHANGED <<cfgvars, batch, scheduler_steps, ewcvars, rollvars, updvars,
                   fishvars, evalvars, epoch, polvars, get_calls, snap_fresh,
                   trained>>

NextSurrogate == ActorLossStep

SpecSurrogate == InitSurrogate /\ [][NextSurrogate]_vars


\* ================================================================= claims
CeilDiv(a, b) == (a + b - 1) \div b
Stored == {k \in DOMAIN fisher_matrices : fisher_matrices[k] # None}
\* the slot (1-based) the next task switch writes
ActiveSlot == PyIndex(tasks[current_task_index + 1], num_tasks) + 1

\* some stored Fisher entry is nonzero
FisherNonzero == \E k \in Stored : \E n \in ParamNames : fisher_matrices[k][n][1] > 0
\* some parameter with a nonzero stored Fisher entry differs from its anchor
Moved == \E k \in Stored : \E n \in ParamNames :
             /\ fisher_matrices[k][n][1] > 0
             /\ actor_params[n] # old_params_list[k][n]

\* C1 (as stated): after N completed epochs the Regularizer's task index has
\* advanced exactly floor(N * S / T) times.
C1_FloorOfSteps ==
    pc = "epoch_end" =>
        switches = ((epoch + 1) * steps_per_epoch) \div steps_per_task

\* C1 (amended): the counter restarts from 0 at every switch, so a switch
\* happens every ceil(T / S) epochs: after N completed epochs the index has
\* advanced exactly floor(N / ceil(T / S)) times, which is floor(N * S / T)
\* when T is a multiple of S; the pointer is that count modulo num_tasks.
C1_TaskClock ==
    pc = "epoch_end" =>
        /\ switches = (epoch + 1) \div CeilDiv(steps_per_task, steps_per_epoch)
        /\ (steps_per_task % steps_per_epoch = 0 =>
               switches = ((epoch + 1) * steps_per_epoch) \div steps_per_task)
        /\ current_task_index = switches % num_tasks

C1_Witness ==
    /\ pc = "epoch_end"
    /\ switches >= 1
    /\ steps_per_task % steps_per_epoch # 0
    /\ switches < ((epoch + 1) * steps_per_epoch) \div steps_per_task

\* C2 (as stated): at the end of an epoch's rollout finish_path has been
\* invoked exactly once for every slot.
C2_ExactlyOnce ==
    pc = "rollout_done" => \A i \in Slots : finish_calls[i] = 1

\* C2 (amended): finish_path is invoked for a slot on the epoch's last step
\* and on every earlier step on which the slot's episode terminated or was
\* truncated, once per such step and on no other step: 1 + (number of earlier
\* episode ends) times per epoch.
C2_FinishPath ==
    \A i \in Slots :
        /\ step_log[i] # None =>
               (step_log[i].called <=>
                    (step_log[i].epoch_end \/ step_log[i].done \/ step_log[i].time_out))
        /\ pc = "rollout" => finish_calls[i] = early_ends[i]
        /\ pc = "rollout_done" =>
               /\ step_log[i].called
               /\ finish_calls[i] = 1 + early_ends[i]

C2_Witness ==
    /\ pc = "rollout_done"
    /\ \E i \in Slots : finish_calls[i] >= 2

\* C3 (as stated): the penalty is 0 while no Fisher record is stored, and is
\* strictly positive when evaluated right after the first snapshot (no
\* optimizer step in between) if some recorded Fisher entry is nonzero.
C3_PositiveAfterSnapshot ==
    /\ (Stored = {} => ewc_loss = RatZero)
    /\ (ewc_fresh /\ switches = 1 /\ FisherNonzero) => ewc_loss[1] > 0

\* C3 (amended): the penalty is 0 while no Fisher record is stored, and is also
\* 0 when evaluated right after the first snapshot, because the anchor then
\* equals the live parameters; it is never negative, and a minibatch step
\* computes a positive penalty exactly when some stored task has a parameter
\* with a nonzero Fisher entry that differs from its anchor.
C3_EwcPenalty ==
    /\ [](/\ (Stored = {} => ewc_loss = RatZero)
          /\ (ewc_fresh /\ switches = 1 => ewc_loss = RatZero)
          /\ ewc_loss[1] >= 0 /\ ewc_loss[2] > 0)
    /\ [][pc = "minibatch" => (ewc_loss'[1] > 0 <=> Moved)]_vars

C3_Witness ==
    /\ pc = "kl"
    /\ ewc_fresh /\ switches = 1 /\ FisherNonzero
    /\ ewc_loss = RatZero

\* C4: an update stops after the first pass whose KL exceeds target_kl and
\* records that pass's number; without such a pass it runs learning_iters
\* passes; the KL check is made once per pass, after all its minibatches.
C4_KLEarlyStop ==
    /\ pc \in {"minibatch", "kl", "update_done"} =>
           /\ Len(kl_hist) = update_counts
           /\ Len(kl_checks) = update_counts
           /\ \A j \in 1 .. Len(kl_checks) : kl_checks[j] = NumBatches
    /\ pc \in {"minibatch", "kl"} =>
           /\ update_counts < config.learning_iters
           /\ \A j \in 1 .. Len(kl_hist) : ~kl_hist[j]
    /\ pc = "update_done" =>
           /\ update_counts \in 1 .. config.learning_iters
           /\ \A j \in 1 .. (update_counts - 1) : ~kl_hist[j]
           /\ (~kl_hist[update_counts] => update_counts = config.learning_iters)

C4_Witness ==
    /\ pc = "update_done"
    /\ update_counts < config.learning_iters
    /\ kl_hist[update_counts]

\* C5 (as stated): a step taken with steps_since_change > L advances the
\* variant index by one (mod len(TASK_CYCLE)) and leaves the counter at 0;
\* any other step leaves the index alone.
C5_CounterZeroAfterSwitch ==
    [][\A i \in Slots : envs'[i] # envs[i] =>
          IF envs[i].steps_since_change > TASK_LENGTH
          THEN /\ envs'[i].current_task = (envs[i].current_task + 1) % Len(TASK_CYCLE)
               /\ envs'[i].steps_since_change = 0
          ELSE envs'[i].current_task = envs[i].current_task]_vars

\* C5 (amended): as stated, except that the counter is 1 after the step in
\* which the switch happens: check_task resets it to 0 and the same step then
\* increments it; every other step increments it by one.
C5_EnvClock ==
    [][\A i \in Slots : envs'[i] # envs[i] =>
          IF envs[i].steps_since_change > TASK_LENGTH
          THEN /\ envs'[i].current_task = (envs[i].current_task + 1) % Len(TASK_CYCLE)
               /\ envs'[i].steps_since_change = 1
          ELSE /\ envs'[i].current_task = envs[i].current_task
               /\ envs'[i].steps_since_change = envs[i].steps_since_change + 1]_vars

C5_Witness ==
    \E i \in Slots : /\ envs[i].current_task = 1
                     /\ envs[i].resets = 1
                     /\ envs[i].steps_since_change = 1

\* C6: the anchor stored at a task switch equals the live actor parameters of
\* that instant, and a stored anchor changes in no other step, whatever the
\* optimizer does to the live parameters.
C6_AnchorIndependence ==
    [][pc # "start" =>
          IF switches' # switches
          THEN /\ old_params_list'[ActiveSlot] = actor_params
               /\ \A k \in DOMAIN old_params_list :
                      k # ActiveSlot => old_params_list'[k] = old_params_list[k]
          ELSE old_params_list' = old_params_list]_vars

C6_Witness ==
    \E k \in DOMAIN old_params_list :
        /\ old_params_list[k] # None
        /\ old_params_list[k] # actor_params
        /\ ~snap_fresh

\* C7: with evaluation enabled an epoch runs one rollout on the nominal and
\* one on the leg environment, and queries the policy deterministically in both.
C7_EvalDeterministic ==
    (pc = "update" /\ args.use_eval) =>
        /\ eval_runs = [e \in {"nominal", "leg"} |-> 1]
        /\ \A q \in eval_queries : q[2] = TRUE

\* C8: buffer.get() is invoked exactly once in every epoch, also in an epoch
\* with a Fisher/anchor refresh.
C8_SingleDrain ==
    pc = "epoch_end" => get_calls = 1

\* C9: the bootstrap handed to finish_path is 0 for a terminated slot, the
\* critics on the final observation (a zero vector if it is absent) for a
\* truncated, not terminated slot, and the critics on the current observation
\* at an epoch end without termination or truncation.
C9_Bootstrap ==
    \A i \in Slots :
        (step_log[i] # None /\ step_log[i].called) =>
            LET l == step_log[i] IN
            /\ l.done => l.last_value = Zero
            /\ (l.time_out /\ ~l.done) =>
                   l.last_value = Critic(IF l.final_obs = "None" THEN "zeros"
                                         ELSE "final_obs")
            /\ (~l.done /\ ~l.time_out) =>
                   (l.epoch_end /\ l.last_value = Critic("obs"))

C9_Witness ==
    \E i \in Slots :
        /\ step_log[i] # None
        /\ step_log[i].called
        /\ step_log[i].time_out /\ step_log[i].epoch_end /\ ~step_log[i].done
        /\ step_log[i].final_obs = "None"

\* C10: a malformed task list stops the program before the first rollout step
\* or optimizer step.
C10_FailFast ==
    pc = "failed" => ~trained

\* ---------------------------------------------------------------- helpers
\* this step stores a Fisher/anchor pair (the pointer advances on the same step)
PairStored == switches' = switches + 1
\* the pair compute_fisher_info and save_old_params produce at this moment
NewFisher == FisherMean(fisher_info, DataLen)
NewAnchor == [n \in ParamNames |-> actor_params[n]]
\* main() got past the task list's parsing
Parsed == pc # "start" /\ ParseTasks(args.tasks).ok
\* the last K entries of a sequence
LastK(q, K) == IF Len(q) <= K THEN q ELSE SubSeq(q, Len(q) - K + 1, Len(q))

\* C11: main()'s steps_since_change is set to 0 in an epoch exactly when a
\* Fisher/anchor pair is stored in that epoch; in an epoch that stores no pair
\* the counter grows by steps_per_epoch and is not reset.
C11_CounterReset ==
    /\ [](pc = "epoch_end" =>
            /\ steps_since_change = 0 <=> snap_fresh
            /\ ~snap_fresh => steps_since_change >= steps_per_epoch)
    /\ [][/\ (steps_since_change' = 0 /\ steps_since_change # 0) <=> PairStored
          /\ PairStored =>
                /\ fisher_matrices'[ActiveSlot] = NewFisher
                /\ old_params_list'[ActiveSlot] = NewAnchor
          /\ (steps_since_change' # steps_since_change /\ ~PairStored) =>
                /\ pc = "clock"
                /\ steps_since_change' = steps_since_change + steps_per_epoch
          /\ pc = "clock" =>
                steps_since_change' = steps_since_change + steps_per_epoch]_vars

C11_Witness ==
    /\ pc = "epoch_end"
    /\ switches >= 1
    /\ ~snap_fresh
    /\ steps_since_change = steps_per_epoch

\* C12: for every task-id slot the Fisher record and the anchor are both
\* absent or both present, and a present pair was produced together, in one
\* task-switch step.
C12_PairedSlots ==
    /\ [](Parsed =>
            /\ DOMAIN fisher_matrices = 1 .. num_tasks
            /\ DOMAIN old_params_list = 1 .. num_tasks
            /\ \A k \in 1 .. num_tasks :
                   fisher_matrices[k] = None <=> old_params_list[k] = None)
    /\ [][Parsed =>
            \A k \in 1 .. num_tasks :
                (fisher_matrices'[k] # fisher_matrices[k]
                    \/ old_params_list'[k] # old_params_list[k]) =>
                    /\ pc = "fisher" /\ PairStored
                    /\ fisher_matrices'[k] = NewFisher
                    /\ old_params_list'[k] = NewAnchor]_vars

C12_Witness ==
    /\ Parsed
    /\ \E k \in 1 .. num_tasks :
           fisher_matrices[k] # None /\ old_params_list[k] # None
    /\ \E k \in 1 .. num_tasks :
           fisher_matrices[k] = None /\ old_params_list[k] = None

\* C13: the two task clocks are independent: the environments' variant index
\* and step counter change only by the environments' own step, which writes
\* nothing of the Regularizer's counter, pointer or slots, and no other action
\* of the training loop writes an environment; states in which the two clocks
\* disagree in phase are reachable.
C13_ClockIndependence ==
    [][/\ envs' # envs =>
            /\ pc = "rollout"
            /\ \A i \in Slots :
                  LET e == EnvStep(envs[i], TASK_LENGTH)
                  IN  /\ envs'[i].current_task = e.current_task
                      /\ envs'[i].steps_since_change = e.steps_since_change
                      /\ envs'[i].current_task_name = e.current_task_name
                      /\ envs'[i].body_mass = e.body_mass
       /\ pc = "rollout" =>
            UNCHANGED <<steps_since_change, current_task_index, fisher_matrices,
                        old_params_list, tasks, num_tasks>>
       /\ pc \notin {"rollout"} => envs' = envs]_vars

C13_Witness ==
    \/ /\ switches = 0
       /\ \E i \in Slots : envs[i].current_task # 0
    \/ /\ switches >= 2
       /\ \E i \in Slots : envs[i].current_task = 0 /\ envs[i].steps_since_change > 0

\* C14: rew_deque, cost_deque and len_deque receive an append only on a step
\* on which a slot's episode terminated or was truncated, one per such slot;
\* a path closed by the epoch boundary alone leaves them unchanged; each holds
\* at most 20 entries, the most recent ones.
C14_RecencyWindows ==
    /\ [](/\ Len(rew_deque) <= WindowLen
          /\ Len(cost_deque) <= WindowLen
          /\ Len(len_deque) <= WindowLen)
    /\ [][/\ pc # "rollout" => UNCHANGED <<rew_deque, cost_deque, len_deque>>
          /\ pc = "rollout" =>
               LET ended == SelectSeq([j \in 1 .. args.num_envs |-> j - 1],
                                LAMBDA i : step_log'[i].done \/ step_log'[i].time_out)
                   new(acc) == [j \in 1 .. Len(ended) |-> acc[ended[j]] + 1]
               IN  /\ rew_deque' = LastK(rew_deque \o new(ep_ret), WindowLen)
                   /\ cost_deque' = LastK(cost_deque \o new(ep_cost), WindowLen)
                   /\ len_deque' = LastK(len_deque \o new(ep_len), WindowLen)
                   /\ Len(ended) = 0 =>
                          UNCHANGED <<rew_deque, cost_deque, len_deque>>]_vars

C14_Witness ==
    /\ pc = "rollout_done"
    /\ epoch = 1
    /\ Len(len_deque) = WindowLen
    /\ (((epoch + 1) * local_steps_per_epoch) \div max_episode_steps) * args.num_envs
           > WindowLen

\* C15: a sample's surrogate term is min(ratio * adv, clip(ratio, 0.8, 1.2) * adv)
\* for a ratio below 0.8, inside [0.8, 1.2] and above 1.2 and an advantage that
\* is negative, zero and positive: the clipped value counts only where it
\* lowers the term.  The actor loss is the negated mean of the terms.
C15_ExpectedTerm(ratio, adv) ==
    IF ~RatLeq(ClipLow, ratio)
    THEN IF adv < 0 THEN RatScale(ClipLow, adv) ELSE RatScale(ratio, adv)
    ELSE IF ~RatLeq(ratio, ClipHigh)
         THEN IF adv > 0 THEN RatScale(ClipHigh, adv) ELSE RatScale(ratio, adv)
         ELSE RatScale(ratio, adv)

C15_ClippedSurrogate ==
    loss_pi # None =>
        LET total == SumOver([j \in 1 .. Len(batch) |->
                                  C15_ExpectedTerm(batch[j][1], batch[j][2])],
                             1 .. Len(batch))
        IN  /\ RatAdd(RatScale(loss_pi, Len(batch)), total) = RatZero
            /\ \A j \in 1 .. Len(batch) :
                   LET t == SurrogateTerm(batch[j][1], batch[j][2])
                   IN  /\ RatLeq(t, RatScale(batch[j][1], batch[j][2]))
                       /\ RatLeq(t, RatScale(clamp(batch[j][1], ClipLow, ClipHigh),
                                             batch[j][2]))
                       /\ t = C15_ExpectedTerm(batch[j][1], batch[j][2])

C15_Witness ==
    /\ loss_pi # None
    /\ \E j \in 1 .. Len(batch) : ~RatLeq(batch[j][1], ClipHigh) /\ batch[j][2] > 0
    /\ \E j \in 1 .. Len(batch) : ~RatLeq(ClipLow, batch[j][1]) /\ batch[j][2] < 0

\* C16: slot k's Fisher record and anchor change only in a task-switch step
\* whose active task id is k; every other action, and a switch for another
\* id, leaves them unchanged; a revisit replaces the pair by the newly
\* computed one alone; a stored pair is never removed.
C16_SlotLifecycle ==
    [][Parsed =>
         \A k \in 1 .. num_tasks :
            /\ IF PairStored /\ k = ActiveSlot
               THEN /\ fisher_matrices'[k] = NewFisher
                    /\ old_params_list'[k] = NewAnchor
               ELSE /\ fisher_matrices'[k] = fisher_matrices[k]
                    /\ old_params_list'[k] = old_params_list[k]
            /\ fisher_matrices[k] # None => fisher_matrices'[k] # None
            /\ old_params_list[k] # None => old_params_list'[k] # None]_vars

C16_Witness ==
    /\ pc = "fisher"
    /\ fisher_i >= DataLen
    /\ switches >= num_tasks
    /\ \E k \in 1 .. num_tasks : k # ActiveSlot /\ fisher_matrices[k] # None
    /\ fisher_matrices[ActiveSlot] # None
    /\ fisher_matrices[ActiveSlot] # NewFisher
    /\ old_params_list[ActiveSlot] # NewAnchor

\* C17: the actor's and both critics' parameters are written only by the
\* update's optimizer steps: rollout steps, evaluation steps and the whole
\* Fisher estimation with the anchor snapshot leave them unchanged.
C17_ParamsWrittenByUpdateOnly ==
    [][/\ pc \in {"rollout", "rollout_done", "eval_nominal", "eval_leg",
                  "update", "kl", "update_done", "clock", "fisher", "epoch_end"}
            => UNCHANGED <<actor_params, reward_critic_params, cost_critic_params>>
       /\ (Parsed /\ <<actor_params, reward_critic_params, cost_critic_params>>'
                   # <<actor_params, reward_critic_params, cost_critic_params>>)
            => pc = "minibatch"]_vars

C17_Witness ==
    /\ pc = "epoch_end"
    /\ snap_fresh
    /\ fisher_matrices[1] # None /\ fisher_matrices[1].mean[1] > 0
    /\ reward_critic_params.mean = 1 /\ cost_critic_params.mean = 1
    /\ args.use_eval

\* C18: the phases of an epoch are strictly ordered: every slot has stored
\* exactly local_steps_per_epoch transitions when the buffer is drained;
\* nothing is stored between the drain and the end of the update's passes; the
\* switch check and the Fisher refresh come after the last pass and before the
\* next epoch's first store, so the penalty used in epoch e sees only pairs
\* stored in epochs before e.
C18_PhaseOrder ==
    /\ pc \in {"rollout"} =>
          \A i \in Slots : buf_ptr[i] = steps /\ steps < local_steps_per_epoch
    /\ pc \in {"rollout_done"} => steps = local_steps_per_epoch
    /\ pc \in {"rollout_done", "eval_nominal", "eval_leg", "update"} =>
          \A i \in Slots : buf_ptr[i] = local_steps_per_epoch
    /\ pc \in {"minibatch", "kl", "update_done", "clock", "fisher", "epoch_end"} =>
          \A i \in Slots : buf_ptr[i] = 0
    /\ pc \in {"rollout", "rollout_done", "eval_nominal", "eval_leg", "update",
               "minibatch", "kl", "update_done", "clock"} =>
          /\ switches = epoch \div CeilDiv(steps_per_task, steps_per_epoch)
          /\ fisher_i = 0 /\ fisher_info = None
          /\ (epoch = 0 => Stored = {})
    /\ pc \in {"minibatch", "kl"} => get_calls = 1
    /\ pc = "fisher" => update_counts >= 1 /\ mb = 0 /\ get_calls = 2

C18_Witness ==
    /\ pc = "kl"
    /\ epoch >= 1
    /\ Stored # {}
    /\ ewc_loss[1] > 0
    /\ switches = 1

\* C19 (as stated): at each switch the pair is stored in the slot of
\* tasks[current_task_index] as it is before the advance, the pointer then
\* becomes (current_task_index + 1) mod num_tasks; in every reachable state
\* 0 <= current_task_index < num_tasks, and after num_tasks switches the
\* pointer is back at 0.
C19_PointerCycle ==
    /\ [](Parsed =>
            /\ 0 <= current_task_index
            /\ current_task_index < num_tasks
            /\ current_task_index = switches % num_tasks)
    /\ [][PairStored =>
            /\ fisher_matrices'[PyIndex(tasks[current_task_index + 1], num_tasks) + 1]
                   = NewFisher
            /\ current_task_index' = (current_task_index + 1) % num_tasks]_vars

\* C20: after every variant switch the body-mass vector is the nominal vector
\* times the new variant's multiplier, never a multiple of the previous
\* variant's masses, and the simulation is reset in the same step; in every
\* reachable state current_task_name = TASK_CYCLE[current_task] and
\* 0 <= current_task < len(TASK_CYCLE).
C20_VariantRescaling ==
    /\ [](\A i \in Slots :
            /\ 0 <= envs[i].current_task
            /\ envs[i].current_task < Len(TASK_CYCLE)
            /\ envs[i].current_task_name = TASK_CYCLE[envs[i].current_task + 1]
            /\ envs[i].body_mass =
                   RatMul(NOMINAL_MASSES, MULTIPLIERS[envs[i].current_task_name]))
    /\ [][\A i \in Slots :
            envs'[i].current_task # envs[i].current_task =>
                /\ envs'[i].resets = 1
                /\ envs'[i].current_task =
                       (envs[i].current_task + 1) % Len(TASK_CYCLE)
                /\ envs'[i].body_mass =
                       RatMul(NOMINAL_MASSES,
                              MULTIPLIERS[TASK_CYCLE[envs'[i].current_task + 1]])]_vars

C20_Witness ==
    \E i \in Slots :
        /\ envs[i].resets = 1
        /\ envs[i].current_task = 2
        /\ envs[i].body_mass = NOMINAL_MASSES

\* C21: actor_scheduler.step() is called exactly once in every epoch, after
\* the pass loop, whether the loop ran all learning_iters passes or stopped
\* early on KL: after e completed epochs it has been called e times.
C21_SchedulerOncePerEpoch ==
    /\ [](/\ pc \in {"rollout", "rollout_done", "eval_nominal", "eval_leg",
                     "update", "minibatch", "kl", "update_done", "done"}
               => scheduler_steps = epoch
          /\ pc \in {"clock", "fisher", "epoch_end"} => scheduler_steps = epoch + 1)
    /\ [][/\ scheduler_steps' # scheduler_steps =>
                /\ pc = "update_done"
                /\ update_counts >= 1
                /\ update_counts = config.learning_iters \/ kl_hist[Len(kl_hist)]
          /\ pc = "update_done" => scheduler_steps' = scheduler_steps + 1]_vars

C21_Witness ==
    /\ pc = "epoch_end"
    /\ epoch >= 1
    /\ update_counts < config.learning_iters
    /\ scheduler_steps = epoch + 1

\* C22: counting step() calls of a fresh environment with threshold L, the
\* first variant switch happens during call L + 2 and every later one L + 1
\* calls after the previous one; once a step has run,
\* 1 <= steps_since_change <= L + 1 at every step boundary.
C22_SwitchTiming ==
    \A i \in Slots :
        LET e == envs[i]
            L == TASK_LENGTH
            n == e.calls
            since == n - (L + 2)       \* calls after the first switching call
        IN  /\ n >= 1 => (1 <= e.steps_since_change /\ e.steps_since_change <= L + 1)
            /\ e.resets = 1 <=> (since >= 0 /\ since % (L + 1) = 0)
            /\ e.current_task =
                   IF since < 0 THEN 0
                   ELSE ((since \div (L + 1)) + 1) % Len(TASK_CYCLE)
            /\ e.steps_since_change =
                   IF since < 0 THEN n ELSE (since % (L + 1)) + 1

C22_Witness ==
    \E i \in Slots :
        /\ envs[i].calls = 2 * TASK_LENGTH + 3
        /\ envs[i].resets = 1
        /\ envs[i].current_task = 2
        /\ envs[i].steps_since_change = 1

\* C23: step() returns terminated = False and truncated = False on every
\* call, also on the call in which the variant switches and the simulation is
\* reset, and the observation it returns on that call is the one computed
\* before the reset: the environment never reports a variant switch as an
\* episode boundary.
C23_SilentReset ==
    /\ [](\A i \in Slots :
            /\ ~envs[i].ret.terminated
            /\ ~envs[i].ret.truncated
            /\ envs[i].calls >= 1 => envs[i].ret.observation >= 1)
    /\ [][pc = "rollout" =>
            \A i \in Slots :
                /\ envs'[i].ret.observation = envs[i].sim_steps + 1
                /\ envs'[i].resets = 1 =>
                      /\ envs'[i].sim_steps = 0
                      /\ envs'[i].current_task # envs[i].current_task
                      /\ ~envs'[i].ret.terminated
                      /\ ~envs'[i].ret.truncated]_vars

C23_Witness ==
    \E i \in Slots :
        /\ envs[i].resets = 1
        /\ envs[i].sim_steps = 0
        /\ envs[i].ret.observation >= 2
        /\ step_log[i] # None
        /\ ~step_log[i].done /\ ~step_log[i].time_out

\* C24: a slot's running return, cost and length are reset to 0 only on a
\* step on which that slot's episode ends (terminated or truncated) and are
\* carried unchanged across epoch boundaries and updates; every length
\* appended to len_deque is the number of steps the slot took since its
\* previous episode end (or the start of training), also when the episode
\* spans several epochs.
C24_EpisodeAccumulators ==
    /\ [](\A i \in Slots : ep_len[i] = elapsed[i])
    /\ [][/\ pc # "rollout" => UNCHANGED <<ep_ret, ep_cost, ep_len>>
          /\ pc = "rollout" =>
               \A i \in Slots :
                  LET ended(j) == step_log'[j].done \/ step_log'[j].time_out
                      later == Cardinality({j \in Slots : j > i /\ ended(j)})
                  IN  IF ended(i)
                      THEN /\ ep_ret'[i] = 0 /\ ep_cost'[i] = 0 /\ ep_len'[i] = 0
                           /\ len_deque'[Len(len_deque') - later] = elapsed[i] + 1
                      ELSE /\ ep_len'[i] = ep_len[i] + 1
                           /\ ep_ret'[i] - ep_ret[i] \in Rewards
                           /\ ep_cost'[i] - ep_cost[i] \in Costs]_vars

C24_Witness ==
    /\ pc = "rollout"
    /\ epoch >= 1
    /\ \E i \in Slots :
          /\ step_log[i] # None
          /\ step_log[i].done \/ step_log[i].time_out
          /\ ~step_log[i].epoch_end
          /\ ep_len[i] = 0
    /\ len_deque # <<>>
    /\ len_deque[Len(len_deque)] > steps

====
